---- MODULE Spec2Model ----
(***************************************************************************)
(* Model of pointguard's `show` command (src/src/show.rs): the retrieval   *)
(* dispatcher `show` and the tree builder `print_tree`.                    *)
(*                                                                         *)
(* Text is modelled as a sequence of tokens.  A file name is a sequence of *)
(* tokens in which "." is the dot (<<"dir", ".", "gpg">> is dir.gpg); a    *)
(* requested target is a sequence of tokens in which "/" is the path       *)
(* separator; a path is a sequence of file names (its components).  The    *)
(* tokens are prefix-free, so token-wise comparison of two texts is their  *)
(* byte-wise comparison.                                                   *)
(***************************************************************************)
EXTENDS Integers, Sequences, FiniteSets, TLC

VARIABLES
    settings,   \* Settings { dir, clip_time }
    fs,         \* the file system under settings.dir: [root, files, dirs]
    opts,       \* Show { input: Option<String>, clip: bool }
    pc,         \* position of the call inside show / print_tree
    outcome,    \* branch of show taken: "none" | "Reveal" | "Browse" | "NotFound"
    pw,         \* plaintext returned by gpg::decrypt (line 78)
    line,       \* first line of pw (line 89), once extracted
    out,        \* bytes received by the output sink `buffer`
    relay,      \* the child spawned at line 81: [spawned, stdin]
    relayProc,  \* the relay process itself: [state, clipboard]
    calls,      \* calls made so far: [decrypt, spawn, begin_child, end_child]
    result,     \* value returned by show: [kind, msg]
    wstack,     \* walkdir's stack of directories being listed
    wseen,      \* entries the walker has already produced
    wfailed,    \* directories the walker could not read
    depth,      \* print_tree's counter `depth` (line 41)
    builder     \* TreeBuilder: [label, nodes, open]

vars == <<settings, fs, opts, pc, outcome, pw, line, out, relay, relayProc, calls,
          result, wstack, wseen, wfailed, depth, builder>>

----------------------------------------------------------------------------
(* Bounds and input sets *)

\* largest number of entries in the store directory
MaxEntries == 3

\* Settings.clip_time as configured in get_test_settings
ClipTime == 45

Dir    == <<"dir">>
DirGpg == <<"dir", ".", "gpg">>
DotGpg == <<".", "gpg">>
TDev   == <<"t", ".", "dev">>

\* the file names an entry of the store may carry
Names == {Dir, DirGpg, DotGpg, TDev}

\* a file name that is not valid unicode; met in the store directory itself
BadName == <<"<invalid>">>

\* settings.dir: a plain and a dot-named store directory
RootDirs == {<<<<"store">>>>, <<<<".", "store">>>>}

None == [some |-> FALSE, val |-> <<>>]
Some(v) == [some |-> TRUE, val |-> v]

\* the requested targets (relative paths, as typed)
Targets ==
    {None, Some(<<"dir">>), Some(<<"dir", "/">>), Some(<<"dir", "/", "dir">>),
     Some(<<".", "gpg">>), Some(<<"dir", ".", "gpg">>), Some(<<"t">>)}

\* the plaintexts gpg::decrypt may return
Plaintexts ==
    {<<>>, <<"p">>, <<"\n">>, <<"p", "\n">>, <<"p", "\n", "q">>,
     <<"p", "\r", "\n", "q">>, <<"p", "\r">>, <<"\r", "\n", "q">>,
     <<"p", "\r", "q", "\n">>, <<"\n", "q">>}

----------------------------------------------------------------------------
(* The store directory *)

EmptyStore == [files |-> {}, dirs |-> {}]

StoreEntries(s) == s.files \cup s.dirs

\* the paths one more entry of store s may have: a new name in the store
\* directory itself or in one of its directories
Extensions(s) ==
    ({Append(d, n) : d \in {<<>>} \cup s.dirs, n \in Names} \cup {<<BadName>>})
        \ StoreEntries(s)

AddFile(s, p) == [s EXCEPT !.files = @ \cup {p}]
AddDir(s, p) == [s EXCEPT !.dirs = @ \cup {p}]

RECURSIVE StoresUpTo(_)
StoresUpTo(n) ==
    IF n = 0 THEN {EmptyStore}
    ELSE LET prev == StoresUpTo(n - 1)
         IN  prev \cup UNION {{AddFile(s, p) : p \in Extensions(s)}
                                \cup {AddDir(s, p) : p \in Extensions(s)} : s \in prev}

Stores == StoresUpTo(MaxEntries)

\* settings.dir is a directory holding a store, a regular file, or missing
FileSystems ==
    {[root |-> "dir", files |-> s.files, dirs |-> s.dirs] : s \in Stores}
        \cup {[root |-> k, files |-> {}, dirs |-> {}] : k \in {"file", "none"}}

IsPrefix(p, q) == Len(p) <= Len(q) /\ SubSeq(q, 1, Len(p)) = p

\* what the file system holds at path p
Kind(p) ==
    IF ~IsPrefix(settings.dir, p) THEN "none"
    ELSE LET rel == SubSeq(p, Len(settings.dir) + 1, Len(p))
         IN  IF rel = <<>> THEN fs.root
             ELSE IF fs.root # "dir" THEN "none"
             ELSE IF rel \in fs.dirs THEN "dir"
             ELSE IF rel \in fs.files THEN "file"
             ELSE "none"

Exists(p) == Kind(p) # "none"
IsDir(p) == Kind(p) = "dir"

----------------------------------------------------------------------------
(* Paths *)

GpgExt == <<".", "gpg">>

Flush(cur) == IF cur = <<>> \/ cur = <<".">> THEN <<>> ELSE <<cur>>

\* the components of a relative path text: split at the separators, empty
\* and "." components dropped
RECURSIVE Components(_, _)
Components(toks, cur) ==
    IF toks = <<>> THEN Flush(cur)
    ELSE IF Head(toks) = "/" THEN Flush(cur) \o Components(Tail(toks), <<>>)
    ELSE Components(Tail(toks), Append(cur, Head(toks)))

Join(base, toks) == base \o Components(toks, <<>>)

\* the directory candidate `path` of show
DirCandidate ==
    IF opts.input.some THEN Join(settings.dir, opts.input.val) ELSE settings.dir

\* SecretCandidate with the extension forgotten
SecretCandidateNoExt ==
    IF opts.input.some THEN Join(settings.dir, opts.input.val) ELSE settings.dir

\* the secret candidate `file` of show
SecretCandidate ==
    IF opts.input.some THEN Join(settings.dir, opts.input.val \o GpgExt)
    ELSE settings.dir

----------------------------------------------------------------------------
(* Text *)

DigitChar == <<"0", "1", "2", "3", "4", "5", "6", "7", "8", "9">>

RECURSIVE Decimal(_)
Decimal(n) ==
    IF n < 10 THEN <<DigitChar[n + 1]>>
    ELSE Decimal(n \div 10) \o <<DigitChar[(n % 10) + 1]>>

\* index of the first "\n" of s, 0 when there is none
RECURSIVE FirstNewline(_, _)
FirstNewline(s, i) ==
    IF i > Len(s) THEN 0
    ELSE IF s[i] = "\n" THEN i
    ELSE FirstNewline(s, i + 1)

\* FirstLine with the empty text given an empty first line
\* (lines().next().unwrap_or(""))
FirstLineOrEmpty(s) ==
    IF FirstNewline(s, 1) = 0 THEN Some(s)
    ELSE Some(SubSeq(s, 1, FirstNewline(s, 1) - 1))

\* str::lines().next(): the text before the first "\n", less a "\r" that
\* ends it; the whole text when it holds no "\n"; nothing for the empty text
FirstLine(s) ==
    IF s = <<>> THEN None
    ELSE LET n == FirstNewline(s, 1)
         IN  IF n = 0 THEN Some(s)
             ELSE IF n > 1 /\ s[n - 1] = "\r" THEN Some(SubSeq(s, 1, n - 2))
             ELSE Some(SubSeq(s, 1, n - 1))

ConfirmText(name, secs) ==
    <<"Copied ">> \o name \o <<" to clipboard. Will clear in ">>
        \o Decimal(secs) \o <<" seconds.", "\n">>

\* NotFoundText with the placeholder in every message
NotFoundTextGeneric(input) ==
    <<"File or folder">> \o <<" is not in the point guard password store.">>

NotFoundText(input) ==
    (IF input.some THEN input.val ELSE <<"File or folder">>)
        \o <<" is not in the point guard password store.">>

NoResult == [kind |-> "none", msg |-> <<>>]
Ok == [kind |-> "Ok", msg |-> <<>>]
Err(k, m) == [kind |-> k, msg |-> m]
Panic == [kind |-> "Panic", msg |-> <<>>]

----------------------------------------------------------------------------
(* Entry names *)

\* a byte sequence that is not valid unicode
Invalid == "<invalid>"

ValidUnicode(name) == \A i \in 1..Len(name) : name[i] # Invalid

\* is_hidden: OsStr::to_str, then starts_with('.'); false when not unicode
is_hidden(name) ==
    IF ValidUnicode(name) THEN name # <<>> /\ Head(name) = "." ELSE FALSE

\* index of the last "." of name, 0 when there is none
RECURSIVE LastDot(_, _)
LastDot(name, i) ==
    IF i = 0 THEN 0
    ELSE IF name[i] = "." THEN i
    ELSE LastDot(name, i - 1)

\* Path::file_stem: the name before its final ".", the whole name when it has
\* no "." or only a leading one
FileStem(name) ==
    LET d == LastDot(name, Len(name))
    IN  IF d <= 1 THEN name ELSE SubSeq(name, 1, d - 1)

\* display_path with to_string_lossy in place of to_str
display_path_lossy(name) == [ok |-> TRUE, val |-> FileStem(name)]

\* display_path: the stem as a String, or an InvalidData error
display_path(name) ==
    IF name = <<>> THEN [ok |-> FALSE, val |-> <<"Found a file with no name">>]
    ELSE IF ~ValidUnicode(FileStem(name))
    THEN [ok |-> FALSE, val |-> <<"File name is not valid unicode">>]
    ELSE [ok |-> TRUE, val |-> FileStem(name)]

FileName(p) == IF p = <<>> THEN <<>> ELSE p[Len(p)]

----------------------------------------------------------------------------
(* TreeBuilder: the tree under construction is a sequence of nodes, each with
   its display name, the index of its parent (0: the root) and the path of
   the entry it was made for; `open` is the stack of open child scopes. *)

NewBuilder(label) == [label |-> label, nodes |-> <<>>, open |-> <<>>]

Current(b) == IF b.open = <<>> THEN 0 ELSE b.open[Len(b.open)]

begin_child(b, name, path) ==
    [b EXCEPT !.nodes = Append(@, [name |-> name, parent |-> Current(b), path |-> path]),
              !.open = Append(@, Len(b.nodes) + 1)]

end_child(b) == [b EXCEPT !.open = SubSeq(@, 1, Len(@) - 1)]

add_empty_child(b, name, path) == end_child(begin_child(b, name, path))

build(b) == [b EXCEPT !.open = <<>>]

TokenRank(t) ==
    CASE t = "." -> 1
      [] t = "dev" -> 2
      [] t = "dir" -> 3
      [] t = "gpg" -> 4
      [] t = "t" -> 5
      [] OTHER -> 6

\* a < b as strings
RECURSIVE NameLess(_, _)
NameLess(a, b) ==
    IF b = <<>> THEN FALSE
    ELSE IF a = <<>> THEN TRUE
    ELSE IF Head(a) # Head(b) THEN TokenRank(Head(a)) < TokenRank(Head(b))
    ELSE NameLess(Tail(a), Tail(b))

ChildSet(nodes, p) == {i \in 1..Len(nodes) : nodes[i].parent = p}

\* the first of the nodes S in sorted order: least name, earliest inserted
\* among equal names (the sort is stable)
FirstSorted(nodes, S) ==
    CHOOSE i \in S : \A j \in S \ {i} :
        \/ NameLess(nodes[i].name, nodes[j].name)
        \/ nodes[i].name = nodes[j].name /\ i < j

RECURSIVE SortSet(_, _)
SortSet(nodes, S) ==
    IF S = {} THEN <<>>
    ELSE LET i == FirstSorted(nodes, S)
         IN  <<i>> \o SortSet(nodes, S \ {i})

\* root.sort(): the children of node p in sorted order
SortedChildren(nodes, p) == SortSet(nodes, ChildSet(nodes, p))

RECURSIVE Indent(_)
Indent(level) == IF level = 0 THEN <<>> ELSE <<"  ">> \o Indent(level - 1)

RECURSIVE RenderNode(_, _, _)
RECURSIVE RenderAll(_, _, _)
RenderNode(nodes, i, level) ==
    Indent(level) \o nodes[i].name \o <<"\n">>
        \o RenderAll(nodes, SortedChildren(nodes, i), level + 1)
RenderAll(nodes, kids, level) ==
    IF kids = <<>> THEN <<>>
    ELSE RenderNode(nodes, Head(kids), level) \o RenderAll(nodes, Tail(kids), level)

\* output::write_tree of the sorted tree: one line per node, in pre-order
write_tree(b) ==
    b.label \o <<"\n">> \o RenderAll(b.nodes, SortedChildren(b.nodes, 0), 1)

DefaultLabel == <<"Point Guard Password Store">>

----------------------------------------------------------------------------
(* WalkDir *)

AllEntries ==
    IF fs.root = "dir" THEN {settings.dir \o r : r \in fs.files \cup fs.dirs}
    ELSE {}

Children(p) == {q \in AllEntries : Len(q) = Len(p) + 1 /\ IsPrefix(p, q)}

Top(st) == st[Len(st)]
Pop(st) == SubSeq(st, 1, Len(st) - 1)

\* what the directory on top of the stack has still to produce
Pending(st, seen) ==
    IF st = <<>> \/ Top(st).err THEN {} ELSE Children(Top(st).path) \ seen

\* the walker leaves every directory that has nothing more to produce
RECURSIVE Settle(_, _)
Settle(st, seen) ==
    IF st = <<>> THEN st
    ELSE IF Top(st).err \/ Pending(st, seen) # {} THEN st
    ELSE Settle(Pop(st), seen)

\* entry.depth()
EntryDepth(e) == Len(e) - Len(DirCandidate)

----------------------------------------------------------------------------
(* show *)

Init ==
    /\ settings \in {[dir |-> d, clip_time |-> ClipTime] : d \in RootDirs}
    /\ fs \in FileSystems
    /\ opts \in [input : Targets, clip : BOOLEAN]
    /\ pc = "show"
    /\ outcome = "none"
    /\ pw = None
    /\ line = None
    /\ out = <<>>
    /\ relay = [spawned |-> FALSE, stdin |-> <<>>]
    /\ relayProc = [state |-> "none", clipboard |-> <<>>]
    /\ calls = [decrypt |-> 0, spawn |-> 0, begin_child |-> 0, end_child |-> 0]
    /\ result = NoResult
    /\ wstack = <<>>
    /\ wseen = {}
    /\ wfailed = {}
    /\ depth = 0
    /\ builder = NewBuilder(<<>>)

\* ShowBranch with the directory tested first
ShowBranchDirFirst ==
    IF IsDir(DirCandidate) THEN "Browse"
    ELSE IF Exists(SecretCandidate) /\ ~IsDir(SecretCandidate) THEN "Reveal"
    ELSE "NotFound"

\* the if / else if / else of show
ShowBranch ==
    IF Exists(SecretCandidate) /\ ~IsDir(SecretCandidate) THEN "Reveal"
    ELSE IF IsDir(DirCandidate) THEN "Browse"
    ELSE "NotFound"

Return(r) == pc' = "done" /\ result' = r

\* ClipMode with the flag ignored
ClipModeAlways == TRUE

\* if opts.clip
ClipMode == opts.clip

\* file.exists() && !file.is_dir(): gpg::decrypt(&file)?
Decrypt ==
    /\ pc = "show"
    /\ ShowBranch = "Reveal"
    /\ outcome' = "Reveal"
    /\ calls' = [calls EXCEPT !.decrypt = @ + 1]
    /\ \/ \E p \in Plaintexts : pw' = Some(p) /\ pc' = "decrypted" /\ UNCHANGED result
       \/ pw' = pw /\ Return(Err("DecryptionFailed", <<>>))
    /\ UNCHANGED <<settings, fs, opts, relayProc, line, out, relay, wstack, wseen, wfailed, depth, builder>>

\* WriteSecret as writeln! would write
WriteSecretLn(sink, text) == sink \o text \o <<"\n">>

\* print mode: write!(buffer, "{}", pw)
WriteSecret(sink, text) == sink \o text

PrintSecret ==
    /\ pc = "decrypted"
    /\ ~ClipMode
    /\ out' = WriteSecret(out, pw.val)
    /\ Return(Ok)
    /\ UNCHANGED <<settings, fs, opts, relayProc, calls, outcome, pw, line, relay, wstack, wseen, wfailed, depth, builder>>

\* clipboard mode: env::current_exe()?, Command::new(exe).arg("clip")
\* .stdin(Stdio::piped()).spawn()?, and the child's stdin taken (piped, so
\* it is there)
SpawnRelay ==
    /\ pc = "decrypted"
    /\ ClipMode
    /\ \/ /\ relay' = [relay EXCEPT !.spawned = TRUE]
          /\ relayProc' = [relayProc EXCEPT !.state = "running"]
          /\ calls' = [calls EXCEPT !.spawn = @ + 1]
          /\ pc' = "spawned" /\ UNCHANGED result
       \/ /\ Return(Err("Io", <<>>))
          /\ UNCHANGED <<relay, relayProc, calls>>
    /\ UNCHANGED <<settings, fs, opts, outcome, pw, line, out, wstack, wseen, wfailed, depth, builder>>

\* pw.lines().next().ok_or_else(..)?
TakeFirstLine ==
    /\ pc = "spawned"
    /\ IF FirstLine(pw.val).some
       THEN line' = FirstLine(pw.val) /\ pc' = "line" /\ UNCHANGED result
       ELSE line' = line
            /\ Return(Err("Other", <<"Error reading the line from the password file.">>))
    /\ UNCHANGED <<settings, fs, opts, relayProc, calls, outcome, pw, out, relay, wstack, wseen, wfailed, depth, builder>>

\* RelayInput with the outer `pw`, the whole plaintext, instead of the line
RelayInputWhole(text) == pw.val

\* child_stdin.write_all(pw.as_bytes())?: everything is written, or the pipe
\* breaks after a proper prefix
RelayInput(text) == text

WriteRelay ==
    /\ pc = "line"
    /\ \/ relay' = [relay EXCEPT !.stdin = @ \o RelayInput(line.val)]
          /\ pc' = "written" /\ UNCHANGED result
       \/ \E k \in 0..(Len(line.val) - 1) :
            /\ relay' = [relay EXCEPT !.stdin = @ \o SubSeq(RelayInput(line.val), 1, k)]
            /\ Return(Err("Io", <<>>))
    /\ UNCHANGED <<settings, fs, opts, relayProc, calls, outcome, pw, line, out, wstack, wseen, wfailed, depth, builder>>

\* ConfirmReady with the child waited for (spawn-and-join)
ConfirmAfterRelayExit == pc = "written" /\ relayProc.state = "exited"

\* the statement after write_all is reached as soon as the write returns:
\* nothing waits for the child
ConfirmReady == pc = "written"

\* writeln!(buffer, "Copied {} to clipboard. Will clear in {} seconds.",
\* opts.input.unwrap(), settings.clip_time)?; Ok(())
Confirm ==
    /\ ConfirmReady
    /\ IF opts.input.some
       THEN out' = out \o ConfirmText(opts.input.val, settings.clip_time) /\ Return(Ok)
       ELSE out' = out /\ Return(Panic)
    /\ UNCHANGED <<settings, fs, opts, relayProc, calls, outcome, pw, line, relay, wstack, wseen, wfailed, depth, builder>>

\* else if path.is_dir(): print_tree(buffer, &path, opts.input)
Browse ==
    /\ pc = "show"
    /\ ShowBranch = "Browse"
    /\ outcome' = "Browse"
    /\ pc' = "print_tree"
    /\ UNCHANGED <<settings, fs, opts, relayProc, calls, pw, line, out, relay, result, wstack, wseen, wfailed, depth, builder>>

\* else: Err(io::Error::new(NotFound, format!(..)))
NotFound ==
    /\ pc = "show"
    /\ ShowBranch = "NotFound"
    /\ outcome' = "NotFound"
    /\ Return(Err("NotFound", NotFoundText(opts.input)))
    /\ UNCHANGED <<settings, fs, opts, relayProc, calls, pw, line, out, relay, wstack, wseen, wfailed, depth, builder>>

----------------------------------------------------------------------------
(* print_tree *)

\* Filtered with no entry rejected
FilteredNothing(name) == FALSE

\* the predicate of filter_entry
Filtered(name) == is_hidden(name)

\* InitialDepth counting the walk root as a level of its own
InitialDepthZero == 1 - 1

\* let mut depth = 1
InitialDepth == 1

\* TreeBuilder::new, WalkDir::new(&path), depth = 1, and the walker's first
\* entry: the walk root, depth 0.  filter_entry drops it with everything
\* beneath when the predicate rejects it; otherwise the loop skips it.
PrintTreeBegin ==
    /\ pc = "print_tree"
    /\ builder' = NewBuilder(IF opts.input.some THEN opts.input.val ELSE DefaultLabel)
    /\ depth' = InitialDepth
    /\ wseen' = {}
    /\ IF Filtered(FileName(DirCandidate))
       THEN wstack' = <<>> /\ wfailed' = {}
       ELSE \E e \in BOOLEAN :
                /\ wstack' = Settle(<<[path |-> DirCandidate, err |-> e]>>, {})
                /\ wfailed' = IF e THEN {DirCandidate} ELSE {}
    /\ pc' = "walk"
    /\ UNCHANGED <<settings, fs, opts, relayProc, calls, outcome, pw, line, out, relay, result>>

\* a directory could not be read: Err(_e) => continue
WalkError ==
    /\ pc = "walk"
    /\ wstack # <<>>
    /\ Top(wstack).err
    /\ wstack' = Settle(Pop(wstack), wseen)
    /\ UNCHANGED <<settings, fs, opts, relayProc, calls, pc, outcome, pw, line, out, relay, result,
                   wseen, wfailed, depth, builder>>

\* filter_entry drops an entry the predicate rejects, a directory with
\* everything beneath it
WalkFiltered ==
    /\ pc = "walk"
    /\ \E e \in Pending(wstack, wseen) :
        /\ Filtered(FileName(e))
        /\ wseen' = wseen \cup {e}
        /\ wstack' = Settle(wstack, wseen')
    /\ UNCHANGED <<settings, fs, opts, relayProc, calls, pc, outcome, pw, line, out, relay, result,
                   wfailed, depth, builder>>

\* DepthAfterDir with the increment left out
DepthAfterDirKept(d) == d

\* the counter after a directory entry
DepthAfterDir(d) == d + 1

\* path.is_dir(): builder.begin_child(display_path(path)?); depth += 1
EntryDir ==
    /\ pc = "walk"
    /\ \E e \in Pending(wstack, wseen) :
        /\ ~Filtered(FileName(e))
        /\ IsDir(e)
        /\ wseen' = wseen \cup {e}
        /\ IF display_path(FileName(e)).ok
           THEN /\ builder' = begin_child(builder, display_path(FileName(e)).val, e)
                /\ depth' = DepthAfterDir(depth)
                /\ calls' = [calls EXCEPT !.begin_child = @ + 1]
                /\ \E r \in BOOLEAN :
                       /\ wstack' = Settle(Append(wstack, [path |-> e, err |-> r]), wseen')
                       /\ wfailed' = IF r THEN wfailed \cup {e} ELSE wfailed
                /\ UNCHANGED <<pc, result>>
           ELSE /\ Return(Err("InvalidData", display_path(FileName(e)).val))
                /\ UNCHANGED <<builder, depth, wstack, wfailed, calls>>
    /\ UNCHANGED <<settings, fs, opts, relayProc, outcome, pw, line, out, relay>>

\* entry.depth() == depth: builder.add_empty_child(display_path(path)?)
EntryLeaf ==
    /\ pc = "walk"
    /\ \E e \in Pending(wstack, wseen) :
        /\ ~Filtered(FileName(e))
        /\ ~IsDir(e)
        /\ EntryDepth(e) = depth
        /\ wseen' = wseen \cup {e}
        /\ IF display_path(FileName(e)).ok
           THEN /\ builder' = add_empty_child(builder, display_path(FileName(e)).val, e)
                /\ wstack' = Settle(wstack, wseen')
                /\ UNCHANGED <<pc, result>>
           ELSE /\ Return(Err("InvalidData", display_path(FileName(e)).val))
                /\ UNCHANGED <<builder, wstack>>
    /\ UNCHANGED <<settings, fs, opts, relayProc, calls, outcome, pw, line, out, relay, wfailed, depth>>

\* DepthAfterAscent with the decrement left out
DepthAfterAscentKept(d) == d

\* the counter after the else branch
DepthAfterAscent(d) == d - 1

\* else: builder.end_child(); builder.add_empty_child(display_path(path)?);
\* depth -= 1.  end_child with no open child scope panics.
EntryLeafAscent ==
    /\ pc = "walk"
    /\ \E e \in Pending(wstack, wseen) :
        /\ ~Filtered(FileName(e))
        /\ ~IsDir(e)
        /\ EntryDepth(e) # depth
        /\ wseen' = wseen \cup {e}
        /\ calls' = [calls EXCEPT !.end_child = @ + 1]
        /\ IF builder.open = <<>>
           THEN Return(Panic) /\ UNCHANGED <<builder, depth, wstack>>
           ELSE IF display_path(FileName(e)).ok
           THEN /\ builder' = add_empty_child(end_child(builder),
                                              display_path(FileName(e)).val, e)
                /\ depth' = DepthAfterAscent(depth)
                /\ wstack' = Settle(wstack, wseen')
                /\ UNCHANGED <<pc, result>>
           ELSE /\ builder' = end_child(builder)
                /\ Return(Err("InvalidData", display_path(FileName(e)).val))
                /\ UNCHANGED <<depth, wstack>>
    /\ UNCHANGED <<settings, fs, opts, relayProc, outcome, pw, line, out, relay, wfailed>>

\* the walk is over: builder.build(), root.sort(),
\* output::write_tree(&root, buffer)?, Ok(())
PrintTreeEnd ==
    /\ pc = "walk"
    /\ wstack = <<>>
    /\ builder' = build(builder)
    /\ out' = out \o write_tree(builder')
    /\ Return(Ok)
    /\ UNCHANGED <<settings, fs, opts, relayProc, calls, outcome, pw, line, relay, wstack, wseen, wfailed, depth>>

\* the relay reads its input stream to the end, which comes when show has
\* returned and the child's stdin handle is dropped, and places what it read
\* on the clipboard
RelayCopy ==
    /\ relayProc.state = "running"
    /\ pc = "done"
    /\ relayProc' = [state |-> "holding", clipboard |-> relay.stdin]
    /\ UNCHANGED <<settings, fs, opts, pc, outcome, pw, line, out, relay, calls,
                   result, wstack, wseen, wfailed, depth, builder>>

\* after the clear timeout the relay clears the clipboard and exits
RelayClear ==
    /\ relayProc.state = "holding"
    /\ relayProc' = [state |-> "exited", clipboard |-> <<>>]
    /\ UNCHANGED <<settings, fs, opts, pc, outcome, pw, line, out, relay, calls,
                   result, wstack, wseen, wfailed, depth, builder>>

\* the steps of show and print_tree
Dispatcher ==
    \/ Decrypt
    \/ PrintSecret
    \/ SpawnRelay
    \/ TakeFirstLine
    \/ WriteRelay
    \/ Confirm
    \/ Browse
    \/ NotFound
    \/ PrintTreeBegin
    \/ WalkError
    \/ WalkFiltered
    \/ EntryDir
    \/ EntryLeaf
    \/ EntryLeafAscent
    \/ PrintTreeEnd

Next ==
    \/ Dispatcher
    \/ RelayCopy
    \/ RelayClear

Spec == Init /\ [][Next]_vars

\* how far show has come on the clipboard path (lines 80-99)
PcRank(p) ==
    CASE p = "spawned" -> 1
      [] p = "line" -> 2
      [] p = "written" -> 3
      [] p = "done" -> 4
      [] OTHER -> 0


----------------------------------------------------------------------------
(* Properties of the retrieval dispatcher *)

\* the outcome the decision order prescribes, read off the file system
PrescribedOutcome ==
    IF Kind(SecretCandidate) = "file" THEN "Reveal"
    ELSE IF Kind(DirCandidate) = "dir" THEN "Browse"
    ELSE "NotFound"

\* C1: for every store and every target, present or absent, show takes exactly
\* one of the three outcomes, in this order: Reveal iff the secret candidate
\* exists and is no directory, otherwise Browse iff the directory candidate is
\* a directory, otherwise NotFound.  The outcome taken shows in what show
\* does: only Reveal decrypts, only Browse builds a tree, only NotFound
\* returns the not-found error.
C1_DecisionOrder ==
    /\ pc = "show" <=> outcome = "none"
    /\ outcome # "none" => outcome = PrescribedOutcome
    /\ outcome = "Reveal" <=> (pw.some \/ result.kind = "DecryptionFailed")
    /\ outcome = "Browse" <=> (pc \in {"print_tree", "walk"} \/ depth > 0)
    /\ outcome = "NotFound" <=> result.kind = "NotFound"

\* a secret candidate that exists but is a directory does not reveal: the
\* call browses the directory candidate
C1_Witness ==
    /\ outcome = "Browse"
    /\ opts.input.some
    /\ Kind(SecretCandidate) = "dir"
    /\ pc = "done"

\* the entry beside path p whose name is p's name followed by ".gpg"
SiblingSecret(p) == Append(Pop(p), FileName(p) \o <<".", "gpg">>)

\* the requested name N (a name, not ended by a separator) has a
\* sub-directory N and a non-directory file N.gpg beside it
SameNameAsDir ==
    /\ opts.input.some
    /\ opts.input.val[Len(opts.input.val)] # "/"
    /\ Kind(Join(settings.dir, opts.input.val)) = "dir"
    /\ Kind(SiblingSecret(Join(settings.dir, opts.input.val))) = "file"

\* C2: when name N has both a sub-directory N and a non-directory file N.gpg
\* at the same level, show(N) in print mode decrypts N.gpg and writes that
\* plaintext; it never walks directory N nor writes a tree.
C2_SecretBeforeDir ==
    (SameNameAsDir /\ ~opts.clip) =>
        /\ outcome \in {"none", "Reveal"}
        /\ pc \in {"show", "decrypted", "done"}
        /\ builder.nodes = <<>> /\ depth = 0
        /\ pc = "decrypted" => out = <<>>
        /\ pc = "done" =>
            \/ result.kind = "Ok" /\ pw.some /\ out = pw.val
            \/ result.kind = "DecryptionFailed" /\ out = <<>>

C2_Witness ==
    /\ SameNameAsDir /\ ~opts.clip
    /\ pc = "done" /\ result.kind = "Ok"
    /\ pw.val = <<"p", "\n", "q">> /\ out = pw.val

\* w is the first line of text, without its terminator "\n" or "\r\n"
IsFirstLineOf(w, text) ==
    /\ IsPrefix(w, text)
    /\ \A i \in 1..Len(w) : w[i] # "\n"
    /\ LET rest == SubSeq(text, Len(w) + 1, Len(text))
       IN  \/ rest = <<>>
           \/ rest[1] = "\n" /\ (w = <<>> \/ w[Len(w)] # "\r")
           \/ Len(rest) >= 2 /\ rest[1] = "\r" /\ rest[2] = "\n"

\* the write to the relay has succeeded
RelayWritten ==
    pc = "written" \/ (pc = "done" /\ line.some /\ relay.stdin = line.val)

\* C4: in clipboard mode the bytes written to the relay's input stream are
\* exactly the first line of the plaintext without its line terminator; at
\* no moment does the stream hold a byte of a later line (it is always a
\* prefix of that first line), and outside clipboard mode nothing is written.
C4_RelayGetsFirstLineOnly ==
    /\ ~opts.clip => relay.stdin = <<>>
    /\ relay.stdin # <<>> =>
        /\ pw.some /\ IsPrefix(relay.stdin, pw.val)
        /\ \A i \in 1..Len(relay.stdin) : relay.stdin[i] # "\n"
        /\ \E w \in {SubSeq(pw.val, 1, k) : k \in 0..Len(pw.val)} :
              IsFirstLineOf(w, pw.val) /\ IsPrefix(relay.stdin, w)
    /\ RelayWritten => IsFirstLineOf(relay.stdin, pw.val)

C4_Witness ==
    /\ pc = "written"
    /\ pw.val = <<"p", "\r", "\n", "q">>
    /\ relay.stdin = <<"p">>

\* C5: in print mode, when the target resolves to Reveal and decryption
\* succeeds, the output sink receives exactly the plaintext decrypt returned,
\* in one write made on return, and nothing else.
C5_PrintVerbatim ==
    (~opts.clip /\ outcome = "Reveal" /\ pw.some) =>
        /\ pc \in {"decrypted", "done"}
        /\ pc = "decrypted" => out = <<>>
        /\ pc = "done" => result.kind = "Ok" /\ out = pw.val

C5_Witness ==
    /\ ~opts.clip /\ ~opts.input.some
    /\ pc = "done" /\ result.kind = "Ok"
    /\ out = <<"p", "\r", "q", "\n">>

\* C6: when the secret candidate is no existing non-directory and the
\* directory candidate is no directory, show fails with the not-found error,
\* its message begins with the requested name (with 'File or folder' when no
\* target was given), and the output sink has received nothing.
C6_NotFound ==
    (Kind(SecretCandidate) # "file" /\ Kind(DirCandidate) # "dir") =>
        /\ out = <<>>
        /\ pc \in {"show", "done"}
        /\ pc = "done" =>
            /\ result.kind = "NotFound"
            /\ LET who == IF opts.input.some THEN opts.input.val
                          ELSE <<"File or folder">>
               IN  /\ IsPrefix(who, result.msg)
                   /\ SubSeq(result.msg, Len(who) + 1, Len(result.msg))
                        = <<" is not in the point guard password store.">>

\* the secret is asked for by its file name, dir.gpg: neither candidate fits
C6_Witness ==
    /\ pc = "done" /\ result.kind = "NotFound"
    /\ opts.input = Some(<<"dir", ".", "gpg">>)
    /\ Kind(settings.dir \o <<DirGpg>>) = "file"

\* C9: a target that ends in the path separator and whose directory candidate
\* is a directory always resolves to Browse, never to Reveal, whatever files
\* the store holds.
C9_TrailingSeparatorBrowses ==
    (/\ opts.input.some
     /\ opts.input.val[Len(opts.input.val)] = "/"
     /\ Kind(Join(settings.dir, opts.input.val)) = "dir"
     /\ outcome # "none") => outcome = "Browse"

\* C10: in clipboard mode, for every target, present or absent, that resolves
\* to Reveal: once decryption, spawn, first-line extraction and the write to
\* the relay have succeeded, show returns success and the output sink holds
\* exactly the one confirmation line, with the target and the clear timeout.
C10_ClipConfirmation ==
    (opts.clip /\ outcome = "Reveal" /\ pc = "done" /\ RelayWritten) =>
        /\ result.kind = "Ok"
        /\ out = ConfirmText(IF opts.input.some THEN opts.input.val
                             ELSE <<"File or folder">>, settings.clip_time)

----------------------------------------------------------------------------
(* Properties of the tree builder *)

WalkRoot == DirCandidate

Beneath(p) == IsPrefix(WalkRoot, p) /\ Len(p) > Len(WalkRoot)

BeginsWithDot(name) == name # <<>> /\ name[1] = "."

\* no component of p below the walk root begins with "."
VisibleBelowRoot(p) ==
    \A k \in (Len(WalkRoot) + 1)..Len(p) : ~BeginsWithDot(p[k])

\* no directory from the walk root down to p's parent failed to be read
Readable(p) ==
    \A k \in Len(WalkRoot)..(Len(p) - 1) : SubSeq(p, 1, k) \notin wfailed

NodesOf(p) == {i \in 1..Len(builder.nodes) : builder.nodes[i].path = p}

BrowseDone == outcome = "Browse" /\ pc = "done" /\ result.kind = "Ok"

\* C3: the tree print_tree builds has the shape of the directory hierarchy,
\* whatever the walk order: every entry directly under the walk root is a
\* child of the synthetic root, every deeper entry is a child of the node of
\* its directory, and a directory node's children are exactly the non-hidden
\* entries immediately beneath it.  (Stated for a walk root whose own name is
\* not hidden and a walk in which every directory could be read.)
C3_TreeShape ==
    (BrowseDone /\ wfailed = {} /\ ~BeginsWithDot(FileName(WalkRoot))) =>
        \A i \in 1..Len(builder.nodes) :
            LET n == builder.nodes[i]
            IN  /\ IF Len(n.path) = Len(WalkRoot) + 1 THEN n.parent = 0
                   ELSE n.parent # 0 /\ builder.nodes[n.parent].path = Pop(n.path)
                /\ {builder.nodes[j].path : j \in ChildSet(builder.nodes, i)}
                     = {e \in Children(n.path) : ~BeginsWithDot(FileName(e))}

C8_EveryVisibleEntryOnce ==
    BrowseDone =>
        /\ \A e \in AllEntries :
              (Beneath(e) /\ VisibleBelowRoot(e) /\ Readable(e)) =>
                  /\ Cardinality(NodesOf(e)) = 1
                  /\ \A i \in NodesOf(e) :
                        builder.nodes[i].name = display_path(FileName(e)).val
        /\ \A i \in 1..Len(builder.nodes) :
              LET p == builder.nodes[i].path
              IN  p \in AllEntries /\ Beneath(p) /\ VisibleBelowRoot(p) /\ Readable(p)

\* C8 for a browsed directory whose own name does not begin with "."
C8_UnderVisibleRoot ==
    ~BeginsWithDot(FileName(WalkRoot)) => C8_EveryVisibleEntryOnce

\* ---------------------------------------------------------------------------
\* C11: the dispatcher never waits for the relay.  From the spawn of the relay
\* until show returns, show can always take a step of its own, and every step
\* taken moves it strictly closer to its return; no step of the relay process
\* is needed (none is even possible before the return), so show returns
\* whether or not the relay ever terminates, and a state in which show has
\* returned while the relay is still running is reachable.
C11_ShowNeverWaitsForRelay ==
    /\ [](relay.spawned /\ pc # "done" => ENABLED Dispatcher)
    /\ [][relay.spawned /\ pc # "done" =>
            /\ relayProc' = relayProc
            /\ PcRank(pc') > PcRank(pc)]_vars

\* show has returned after the confirmation and the relay has not yet taken a step
C11_Witness ==
    /\ pc = "done"
    /\ result = Ok
    /\ relay.stdin # <<>>
    /\ relayProc.state = "running"

\* ---------------------------------------------------------------------------
\* nesting level of node i of the tree: 1 for a child of the root
RECURSIVE NodeLevel(_, _)
NodeLevel(nodes, i) ==
    IF nodes[i].parent = 0 THEN 1 ELSE 1 + NodeLevel(nodes, nodes[i].parent)

LastNode(b) == b.nodes[Len(b.nodes)]

\* a step of the else branch (lines 57-61) that ran to its end
ElseBranchStep ==
    /\ pc = "walk" /\ pc' = "walk"
    /\ calls'.end_child = calls.end_child + 1

\* C12: when print_tree processes a non-directory entry whose walk depth d
\* differs from the counter c, it closes exactly one child scope, adds the
\* entry as a leaf of the scope that is then current and sets the counter to
\* c - 1, however large c - d is; when c - d >= 2 the counter still exceeds d
\* after the step and the leaf lies at a nesting level deeper than d.
C12_ElseClosesOneScope ==
    [][ElseBranchStep =>
        \E e \in Pending(wstack, wseen) :
            /\ ~IsDir(e) /\ EntryDepth(e) # depth
            /\ wseen' = wseen \cup {e}
            /\ builder'.open = SubSeq(builder.open, 1, Len(builder.open) - 1)
            /\ Len(builder'.nodes) = Len(builder.nodes) + 1
            /\ SubSeq(builder'.nodes, 1, Len(builder.nodes)) = builder.nodes
            /\ LastNode(builder').path = e
            /\ LastNode(builder').parent =
                   (IF Len(builder.open) = 1 THEN 0
                    ELSE builder.open[Len(builder.open) - 1])
            /\ depth' = depth - 1
            /\ (depth - EntryDepth(e) >= 2 =>
                   /\ depth' > EntryDepth(e)
                   /\ NodeLevel(builder'.nodes, Len(builder'.nodes)) > EntryDepth(e))
    ]_vars

\* the else branch has just added a leaf from a counter at least two above
\* the entry's depth: the counter still exceeds that depth and the leaf hangs
\* below a directory that is not its parent
C12_Witness ==
    /\ pc = "walk"
    /\ calls.end_child >= 1
    /\ builder.nodes # <<>>
    /\ ~IsDir(LastNode(builder).path)
    /\ depth > EntryDepth(LastNode(builder).path)
    /\ NodeLevel(builder.nodes, Len(builder.nodes)) > EntryDepth(LastNode(builder).path)

\* ---------------------------------------------------------------------------
\* the entries the loop body may be handed next
NextEntries == {e \in Pending(wstack, wseen) : ~Filtered(FileName(e))}

\* C13: whenever an entry of walk depth d >= 1 is about to be processed the
\* counter is at least d; hence every step of the final else branch is for a
\* non-directory entry whose depth is strictly less than the counter.
C13_CounterAtLeastDepth ==
    /\ [](pc = "walk" => \A e \in NextEntries : EntryDepth(e) >= 1 /\ depth >= EntryDepth(e))
    /\ [][calls'.end_child # calls.end_child =>
            \E e \in NextEntries :
                /\ wseen' = wseen \cup {e}
                /\ ~IsDir(e)
                /\ EntryDepth(e) < depth]_vars

\* the else branch is about to be taken: a file above the counter's level is next
C13_Witness ==
    /\ pc = "walk"
    /\ \E e \in NextEntries : ~IsDir(e) /\ EntryDepth(e) < depth
    /\ \E e \in wseen : IsDir(e) /\ EntryDepth(e) = depth - 1

\* ---------------------------------------------------------------------------
\* the entries were processed in the order of their nodes; the walk never
\* came up more than one level from one entry to the next
NoSteepAscent ==
    \A i \in 1..(Len(builder.nodes) - 1) :
        EntryDepth(builder.nodes[i + 1].path) >= EntryDepth(builder.nodes[i].path) - 1

\* C14: when the walk never ascends more than one level between two
\* consecutive entries, the tree print_tree builds matches the directory
\* hierarchy: every entry directly under the walk root is a child of the
\* synthetic root and every deeper entry is a child of the node of its
\* directory; in particular two sibling directories are siblings in the tree.
C14_GentleWalkTreeMatches ==
    (BrowseDone /\ NoSteepAscent) =>
        \A i \in 1..Len(builder.nodes) :
            LET n == builder.nodes[i]
            IN  IF EntryDepth(n.path) = 1 THEN n.parent = 0
                ELSE n.parent # 0 /\ builder.nodes[n.parent].path = Pop(n.path)

\* ---------------------------------------------------------------------------
\* the entry a step of the loop body is for
Processing(e) == pc = "walk" /\ e \in NextEntries /\ wseen' = wseen \cup {e}

StripFailed == outcome = "Browse" /\ result.kind = "InvalidData"

\* C15: if name stripping fails for an entry met during the walk, print_tree
\* returns an error at that entry, processes no further entry, and the output
\* sink has received no bytes.
C15_StripFailureAborts ==
    /\ [][\A e \in AllEntries :
            (Processing(e) /\ ~ValidUnicode(FileStem(FileName(e)))) =>
                pc' = "done" /\ result'.kind = "InvalidData"]_vars
    /\ [](StripFailed => pc = "done" /\ out = <<>> /\ ~ENABLED Dispatcher)
    /\ [][StripFailed => UNCHANGED <<wseen, builder, depth, out, result>>]_vars

\* the build was aborted after some entries were added and with entries
\* still to come
C15_Witness ==
    /\ StripFailed
    /\ builder.nodes # <<>>
    /\ \E e \in AllEntries \ wseen : Beneath(e) /\ VisibleBelowRoot(e)

\* ---------------------------------------------------------------------------
\* name with a final ".gpg" removed, and nothing else
StripGpg(name) ==
    IF Len(name) >= 2 /\ SubSeq(name, Len(name) - 1, Len(name)) = GpgExt
    THEN SubSeq(name, 1, Len(name) - 2)
    ELSE name

\* C16: the display name of every tree node is the entry's file name with
\* only the extension ".gpg" removed; a name that does not end in ".gpg" (a
\* directory with a dot in its name, a file with another extension) is shown
\* unchanged.
C16_OnlyGpgStripped ==
    \A i \in 1..Len(builder.nodes) :
        builder.nodes[i].name = StripGpg(FileName(builder.nodes[i].path))

\* ---------------------------------------------------------------------------
\* clipboard mode, and gpg::decrypt returned the empty text
ClipOfEmptySecret == opts.clip /\ pw = Some(<<>>)

\* C17: in clipboard mode, when the decrypted plaintext has no first line
\* (empty content), show fails with an error, writes no bytes to the relay's
\* input stream and writes no confirmation to the output sink.
C17_EmptySecretFails ==
    ClipOfEmptySecret =>
        /\ relay.stdin = <<>>
        /\ out = <<>>
        /\ pc \in {"decrypted", "spawned", "done"}
        /\ (pc = "done" => result.kind \in {"Other", "Io"})

\* the relay was started and show then failed for lack of a first line
C17_Witness ==
    /\ ClipOfEmptySecret
    /\ pc = "done"
    /\ relay.spawned
    /\ result = Err("Other", <<"Error reading the line from the password file.">>)

\* C18: every relay show spawns is handed a secret.  In a run in which the
\* relay was spawned and no stream write failed, the relay's input stream
\* holds the first line of the plaintext when show returns; and a run that
\* fails for lack of a first line has spawned no relay.
C18_SpawnedRelayGetsSecret ==
    /\ (pc = "done" /\ relay.spawned /\ result.kind # "Io") =>
            /\ FirstLine(pw.val).some
            /\ relay.stdin = FirstLine(pw.val).val
    /\ (pc = "done" /\ result.kind = "Other") => ~relay.spawned

\* ---------------------------------------------------------------------------
\* C19: throughout every walk the counter equals 1 plus the number of
\* begin_child calls minus the number of end_child calls and is at least 1;
\* so end_child is never called when no child scope is open, and the
\* synthetic root scope is never closed during the walk.
C19_CounterCountsOpenScopes ==
    /\ [](pc = "walk" =>
            /\ depth = 1 + calls.begin_child - calls.end_child
            /\ depth >= 1
            /\ Len(builder.open) = calls.begin_child - calls.end_child)
    /\ [][calls'.end_child # calls.end_child =>
            /\ calls.begin_child > calls.end_child
            /\ builder.open # <<>>
            /\ result'.kind # "Panic"]_vars

\* directories were entered and a scope was closed again, one still open
C19_Witness ==
    /\ pc = "walk"
    /\ calls.end_child >= 1
    /\ calls.begin_child > calls.end_child
    /\ depth = 2

\* C20: decryption is invoked at most once per show call and only on the
\* Reveal outcome; the relay is spawned at most once, only in clipboard mode
\* and only after decryption has succeeded; if decryption fails no relay is
\* spawned and nothing is written to the output sink.
C20_DecryptAndSpawnAtMostOnce ==
    /\ calls.decrypt <= 1
    /\ (calls.decrypt = 1 =>
            /\ outcome = "Reveal"
            /\ Kind(SecretCandidate) \notin {"none", "dir"})
    /\ (outcome \in {"Browse", "NotFound"} => calls.decrypt = 0 /\ ~pw.some)
    /\ calls.spawn <= 1
    /\ (relay.spawned <=> calls.spawn = 1)
    /\ (calls.spawn = 1 => opts.clip /\ calls.decrypt = 1 /\ pw.some)
    /\ (result.kind = "DecryptionFailed" =>
            /\ calls.decrypt = 1 /\ calls.spawn = 0 /\ ~relay.spawned
            /\ relay.stdin = <<>> /\ out = <<>>)

\* one decryption and one relay in a clipboard run that ended well
C20_Witness ==
    /\ pc = "done" /\ result = Ok
    /\ opts.clip
    /\ calls.decrypt = 1 /\ calls.spawn = 1
====
